---- MODULE Spec2Model ----
(***************************************************************************)
(* Model of the UCB thought selector of                                    *)
(* src/cltl/thoughts/thought_selection/rl_selector.py                      *)
(*                                                                         *)
(* Numbers.  Python floats are modelled as exact rationals <<n, d>> in     *)
(* lowest terms with d > 0.  np.log and np.sqrt, which only occur in the   *)
(* uncertainty term, are evaluated to two decimal places.  np.inf is a     *)
(* separate score value.                                                   *)
(*                                                                         *)
(* Actions.  An action string is modelled by the token sequence that       *)
(* action.split() yields; None and the empty string are both the empty     *)
(* sequence (both are falsy in reward_thought).                            *)
(***************************************************************************)
EXTENDS Integers, Sequences, FiniteSets, TLC

\* ------------------------------------------------------------------ bounds
\* t is followed up to MaxT through reward_thought and up to MaxDirectT
\* through direct update_utility calls (on an instance that is also saved and
\* loaded, while no element has MaxSavedDirect updates); an instance
\* measures MaxHist brain states; select is offered up to MaxCands candidates
MaxT == 3
MaxDirectT == 4
MaxSavedDirect == 1
MaxHist == 3
MaxCands == 2

\* ------------------------------------------------------------------ inputs
Tokens == {"a", "b"}
\* brain states: the one measured at construction, the ones measured by
\* reward_thought, and sets without 0 for callers that keep it positive
SeedMeasurements == {0, 100}
Measurements == {0, 120}
PositiveMeasurements == {100, 120}
LaterMeasurements == {120}
NoThought == << >>
NoFile == [exists |-> FALSE]

\* --------------------------------------------------------------- rationals
RECURSIVE Gcd(_, _)
Gcd(x, y) == IF y = 0 THEN x ELSE Gcd(y, x % y)

Abs(x) == IF x < 0 THEN -x ELSE x

\* n/d divided through by g, with the sign carried by the numerator
Reduced(n, d, g) ==
    IF d < 0 THEN <<(-n) \div g, (-d) \div g>> ELSE <<n \div g, d \div g>>

Rat(n, d) == Reduced(n, d, Gcd(Abs(n), Abs(d)))

Zero == <<0, 1>>
RAdd(x, y) == Rat(x[1] * y[2] + y[1] * x[2], x[2] * y[2])
RSub(x, y) == Rat(x[1] * y[2] - y[1] * x[2], x[2] * y[2])
RMul(x, y) == Rat(x[1] * y[1], x[2] * y[2])
RDiv(x, y) == Rat(x[1] * y[2], x[2] * y[1])
RLess(x, y) == x[1] * y[2] < y[1] * x[2]
RLeq(x, y) == x[1] * y[2] <= y[1] * x[2]
RMax(x, y) == IF RLess(x, y) THEN y ELSE x

RECURSIVE RSum(_)
RSum(s) == IF s = << >> THEN Zero ELSE RAdd(s[1], RSum(Tail(s)))

\* arithmetic mean of a non-empty sequence of rationals
RMean(s) == RDiv(RSum(s), <<Len(s), 1>>)

CInputs == {<<0, 1>>, <<2, 1>>}
TmaxInputs == {<<3, 2>>}
RewardInputs == {<<0, 1>>, <<6, 5>>, <<-1, 2>>}

\* ----------------------------------------------------------------- inputs
Actions == {<<"a">>, <<"b">>, <<"a", "b">>}
\* candidate lists, two of them with an action that repeats an element
RepeatedCands == {<< <<"a", "a">> >>, << <<"a">>, <<"a", "a">> >>}
Distinct(actions) ==
    \A i, j \in 1..Len(actions) : actions[i] = actions[j] => i = j
CandLists ==
    {l \in UNION {[1..n -> Actions] : n \in 0..MaxCands} : Distinct(l)}
        \cup RepeatedCands
SingleCands == {<< >>, << <<"a">> >>, << <<"b">> >>}
UpdateActions == {<<"a">>, <<"b">>, <<"a", "a">>}

TokensOf(action) == {action[i] : i \in 1..Len(action)}
Occurrences(action, k) == Cardinality({i \in 1..Len(action) : action[i] = k})
CandTokens(actions) == UNION {TokensOf(actions[i]) : i \in 1..Len(actions)}

\* ------------------------------------------------------------------- state
\* Q, N, t, c, decay, state_history, reward_history, last_thought: the fields
\* of the UCB object; file: the save file; ret: the last call and its outcome.
\* applied, snap and cycle record the history of the run for the properties:
\* the rewards applied per element, the object as it was at the last save,
\* and the progress of a caller that repeats select -> reward_thought.
VARIABLES Q, N, t, c, decay, state_history, reward_history, last_thought,
          file, ret, applied, snap, cycle

vars == <<Q, N, t, c, decay, state_history, reward_history, last_thought,
          file, ret, applied, snap, cycle>>

\* ------------------------------------------------------------- uncertainty
\* 100 * ln(n) for n = 1..12, rounded
LnCenti == <<0, 69, 110, 139, 161, 179, 195, 208, 220, 230, 240, 248>>

\* integer square root by bisection
RECURSIVE IsqrtIn(_, _, _)
IsqrtIn(x, lo, hi) ==
    IF lo = hi THEN lo
    ELSE LET mid == (lo + hi + 1) \div 2
         IN  IF mid * mid <= x THEN IsqrtIn(x, mid, hi) ELSE IsqrtIn(x, lo, mid - 1)

Isqrt(x) == IsqrtIn(x, 0, 160)

\* 100 * sqrt(ln(tt) / n), tabulated
SqrtLnCenti ==
    [tt \in 1..Len(LnCenti) |-> [n \in 1..24 |-> Isqrt((LnCenti[tt] * 100) \div n)]]

\* self._c * np.sqrt(np.log(self._t) / self._N[action])
Uncertainty(cc, tt, n) == RMul(cc, <<SqrtLnCenti[tt][n], 100>>)

\* ------------------------------------------------------------------ select
Inf == [inf |-> TRUE, v |-> Zero]
Fin(x) == [inf |-> FALSE, v |-> x]

\* variant: an infinite score does not compare greater than a finite one
ScoreGreaterFiniteOnly(x, y) ==
    IF x.inf \/ y.inf THEN FALSE ELSE RLess(y.v, x.v)

\* x > y on scores
ScoreGreater(x, y) ==
    IF x.inf THEN ~y.inf
    ELSE IF y.inf THEN FALSE ELSE RLess(y.v, x.v)

\* variant: an element that was never rewarded scores its value 0
ElemScoreNoInf(k) ==
    IF k \notin DOMAIN Q \/ N[k] = 0 THEN Fin(Zero)
    ELSE Fin(RAdd(Q[k], Uncertainty(c, t, N[k])))

\* score of one element of an action
ElemScore(k) ==
    IF k \notin DOMAIN Q \/ N[k] = 0 THEN Inf
    ELSE Fin(RAdd(Q[k], Uncertainty(c, t, N[k])))

\* np.mean(score): infinite as soon as one element score is
Mean(score) ==
    IF \E i \in 1..Len(score) : score[i].inf THEN Inf
    ELSE Fin(RMean([i \in 1..Len(score) |-> score[i].v]))

\* the score list of an action and its mean
ActionScore(action) == Mean([i \in 1..Len(action) |-> ElemScore(action[i])])

\* max(action_scores, key=lambda x: x[1]): index of the kept element after
\* scanning the first n candidates; a later one replaces it only if greater
\* variant: a later candidate also replaces the kept one on an equal score
RECURSIVE MaxIndexLast(_, _, _)
MaxIndexLast(scores, n, best) ==
    IF n > Len(scores) THEN best
    ELSE MaxIndexLast(scores, n + 1,
                      IF ScoreGreater(scores[best], scores[n]) THEN best ELSE n)

RECURSIVE MaxIndex(_, _, _)
MaxIndex(scores, n, best) ==
    IF n > Len(scores) THEN best
    ELSE MaxIndex(scores, n + 1,
                  IF ScoreGreater(scores[n], scores[best]) THEN n ELSE best)

\* action_scores, then the greedy selection
SelectedAction(actions) ==
    LET action_scores == [i \in 1..Len(actions) |-> ActionScore(actions[i])]
    IN  actions[MaxIndex(action_scores, 2, 1)]

\* ThoughtSelector._preprocess: candidates as whitespace-joined token strings
Preprocess(actions) == actions

\* ThoughtSelector._postprocess: records the selection as the last thought
\* and hands the selected action back to the caller
Postprocess(actions, selected_action) ==
    [last_thought |-> selected_action, returned |-> selected_action]

\* variant: the test "elem not in self._Q" is missing and every element of
\* the candidates is set to 0
AddUnseenResetting(table, actions) ==
    [k \in DOMAIN table \cup CandTokens(actions) |->
        IF k \in DOMAIN table /\ k \notin CandTokens(actions)
        THEN table[k] ELSE 0]

\* table after the scoring loop: unseen elements added with value 0, count 0
AddUnseen(table, actions) ==
    [k \in DOMAIN table \cup CandTokens(actions) |->
        IF k \in DOMAIN table THEN table[k] ELSE 0]

\* variant: only the elements of the selected action are added
AddUnseenQOfSelected(actions) ==
    [k \in DOMAIN Q \cup TokensOf(SelectedAction(actions)) |->
        IF k \in DOMAIN Q THEN Q[k] ELSE Zero]

AddUnseenQ(actions) ==
    [k \in DOMAIN Q \cup CandTokens(actions) |->
        IF k \in DOMAIN Q THEN Q[k] ELSE Zero]

\* the last call: the operation, its argument, its value, its exception
Result(o, arg, val, err) == [op |-> o, arg |-> arg, val |-> val, err |-> err]

\* variant: max(action_scores, default=...) selects nothing from an empty
\* list, and the empty selection is recorded as the last thought
SelectWithDefault(input) ==
    LET actions == Preprocess(input)
    IN  \E selected_action \in {IF actions = << >> THEN NoThought
                                 ELSE SelectedAction(actions)} :
             /\ Q' = AddUnseenQ(actions)
             /\ N' = AddUnseen(N, actions)
             /\ last_thought' = Postprocess(actions, selected_action).last_thought
             /\ ret' = Result("select", input,
                              Postprocess(actions, selected_action).returned, "none")
             /\ UNCHANGED <<t, c, decay, state_history, reward_history,
                            file, applied, snap>>

Select(input) ==
    LET actions == Preprocess(input)
    IN  IF actions = << >>
        THEN /\ ret' = Result("select", input, << >>, "ValueError")
             /\ UNCHANGED <<Q, N, t, c, decay, state_history, reward_history,
                            last_thought, file, applied, snap>>
        ELSE \E selected_action \in {SelectedAction(actions)} :
             /\ Q' = AddUnseenQ(actions)
             /\ N' = AddUnseen(N, actions)
             /\ last_thought' = Postprocess(actions, selected_action).last_thought
             /\ ret' = Result("select", input,
                              Postprocess(actions, selected_action).returned, "none")
             /\ UNCHANGED <<t, c, decay, state_history, reward_history,
                            file, applied, snap>>

\* ---------------------------------------------------------- update_utility
\* elements of the action processed before the first KeyError
RECURSIVE KnownPrefix(_, _)
KnownPrefix(dom, action) ==
    IF action = << >> \/ Head(action) \notin dom THEN << >>
    ELSE <<Head(action)>> \o KnownPrefix(dom, Tail(action))

\* variant: the step is weighted by one more than the count
IncrementalMeanOffByOne(q, reward, n) == RAdd(q, RDiv(RSub(reward, q), <<n + 1, 1>>))

\* Q_n = Q_{n-1} + (R_n - Q_{n-1}) / n
IncrementalMean(q, reward, n) == RAdd(q, RDiv(RSub(reward, q), <<n, 1>>))

\* the loop "for elem in action.split()" over elements present in the table
RECURSIVE UpdateElems(_, _, _)
UpdateElems(tab, elems, reward) ==
    IF elems = << >> THEN tab
    ELSE LET k == Head(elems)
             n1 == tab.N[k] + 1
             q1 == IncrementalMean(tab.Q[k], reward, n1)
         IN  UpdateElems([Q |-> [tab.Q EXCEPT ![k] = q1],
                          N |-> [tab.N EXCEPT ![k] = n1]],
                         Tail(elems), reward)

\* variant: c decays by the factor 1 - decay
DecayedCGeometric(cc, dd) == RMax(RMul(cc, RSub(<<1, 1>>, dd)), Zero)

\* variant: the decay is not clamped at 0
DecayedCUnclamped(cc, dd) == RSub(cc, dd)

\* self._c = max(self._c - self._decay, 0)
DecayedC(cc, dd) == RMax(RSub(cc, dd), Zero)

\* variant: t advances once per element of the action
UpdateUtilityResultPerElement(action, reward) ==
    LET known == KnownPrefix(DOMAIN N, action)
        tab == UpdateElems([Q |-> Q, N |-> N], known, reward)
        ok == Len(known) = Len(action)
    IN  [Q |-> tab.Q, N |-> tab.N,
         t |-> IF ok THEN t + Len(action) ELSE t,
         c |-> IF ok THEN DecayedC(c, decay) ELSE c,
         err |-> IF ok THEN "none" ELSE "KeyError"]

\* variant: every element of the table is updated, whatever the action holds
UpdateUtilityResultWholeTable(action, reward) ==
    LET elems == CHOOSE e \in [1..Cardinality(DOMAIN N) -> DOMAIN N] :
                     {e[i] : i \in 1..Len(e)} = DOMAIN N
        tab == UpdateElems([Q |-> Q, N |-> N], elems, reward)
    IN  [Q |-> tab.Q, N |-> tab.N, t |-> t + 1, c |-> DecayedC(c, decay),
         err |-> "none"]

\* state after update_utility(action, reward); a KeyError leaves the
\* elements before the unknown one updated and skips the t and c update
UpdateUtilityResult(action, reward) ==
    LET known == KnownPrefix(DOMAIN N, action)
        tab == UpdateElems([Q |-> Q, N |-> N], known, reward)
        ok == Len(known) = Len(action)
    IN  [Q |-> tab.Q, N |-> tab.N,
         t |-> IF ok THEN t + 1 ELSE t,
         c |-> IF ok THEN DecayedC(c, decay) ELSE c,
         err |-> IF ok THEN "none" ELSE "KeyError"]

\* record of the rewards each element was updated with (not program state)
RECURSIVE AppliedAfter(_, _, _)
AppliedAfter(app, elems, reward) ==
    IF elems = << >> THEN app
    ELSE AppliedAfter([app EXCEPT ![Head(elems)] = Append(@, reward)],
                      Tail(elems), reward)

UpdateUtility(action, reward) ==
    /\ t < MaxDirectT
    /\ LET u == UpdateUtilityResult(action, reward)
       IN  /\ Q' = u.Q
           /\ N' = u.N
           /\ t' = u.t
           /\ c' = u.c
           /\ applied' = AppliedAfter(applied, KnownPrefix(DOMAIN N, action), reward)
           /\ ret' = Result("update_utility", action, << >>, u.err)
    /\ UNCHANGED <<decay, state_history, reward_history, last_thought, file, snap>>

\* ---------------------------------------------------------- reward_thought
\* variant: R = S_brain(t) - S_brain(t-1)
RewardOfDifference(history) ==
    <<history[Len(history)] - history[Len(history) - 1], 1>>

\* reward = new_state / old_state on the history after the append
RewardOf(history) ==
    <<history[Len(history)], history[Len(history) - 1]>>

\* variant: a previous brain state of 0 is skipped silently
RewardingWhenDivisible(history) ==
    /\ last_thought # NoThought
    /\ Len(history) > 1
    /\ history[Len(history) - 1] # 0

\* variant: the history must hold two earlier brain states
RewardingFromThird(history) == last_thought # NoThought /\ Len(history) > 2

\* variant: the last thought is not tested
RewardingWithoutThought(history) == Len(history) > 1

\* if self._last_thought and len(self._state_history) > 1
Rewarding(history) == last_thought # NoThought /\ Len(history) > 1

\* variant: the last thought is cleared once it has been rewarded
RewardThoughtClearing(brain_state) ==
    LET history == Append(state_history, brain_state)
        rewarding == Rewarding(history)
        old_state == history[Len(history) - 1]
    IN  /\ Len(state_history) < MaxHist
        /\ (rewarding /\ old_state # 0) => t < MaxT
        /\ state_history' = history
        /\ IF ~rewarding
           THEN /\ ret' = Result("reward_thought", << >>, << >>, "none")
                /\ UNCHANGED <<Q, N, t, c, reward_history, applied, last_thought>>
           ELSE IF old_state = 0
           THEN /\ ret' = Result("reward_thought", << >>, << >>, "ZeroDivisionError")
                /\ UNCHANGED <<Q, N, t, c, reward_history, applied, last_thought>>
           ELSE LET reward == Rat(RewardOf(history)[1], RewardOf(history)[2])
                    u == UpdateUtilityResult(last_thought, reward)
                IN  /\ Q' = u.Q
                    /\ N' = u.N
                    /\ t' = u.t
                    /\ c' = u.c
                    /\ applied' = AppliedAfter(applied,
                                               KnownPrefix(DOMAIN N, last_thought),
                                               reward)
                    /\ reward_history' = IF u.err = "none"
                                         THEN Append(reward_history, reward)
                                         ELSE reward_history
                    /\ last_thought' = NoThought
                    /\ ret' = Result("reward_thought", << >>, << >>, u.err)
        /\ UNCHANGED <<decay, file, snap>>

RewardThought(brain_state) ==
    LET history == Append(state_history, brain_state)
        rewarding == Rewarding(history)
        old_state == history[Len(history) - 1]
    IN  /\ Len(state_history) < MaxHist
        /\ (rewarding /\ old_state # 0) => t < MaxT
        /\ state_history' = history
        /\ IF ~rewarding
           THEN /\ ret' = Result("reward_thought", << >>, << >>, "none")
                /\ UNCHANGED <<Q, N, t, c, reward_history, applied>>
           ELSE IF old_state = 0
           THEN /\ ret' = Result("reward_thought", << >>, << >>, "ZeroDivisionError")
                /\ UNCHANGED <<Q, N, t, c, reward_history, applied>>
           ELSE LET reward == Rat(RewardOf(history)[1], RewardOf(history)[2])
                    u == UpdateUtilityResult(last_thought, reward)
                IN  /\ Q' = u.Q
                    /\ N' = u.N
                    /\ t' = u.t
                    /\ c' = u.c
                    /\ applied' = AppliedAfter(applied,
                                               KnownPrefix(DOMAIN N, last_thought),
                                               reward)
                    /\ reward_history' = IF u.err = "none"
                                         THEN Append(reward_history, reward)
                                         ELSE reward_history
                    /\ ret' = Result("reward_thought", << >>, << >>, u.err)
        /\ UNCHANGED <<decay, last_thought, file, snap>>

\* ------------------------------------------------------------- save / load
\* variant: elements that were never rewarded are written as well
SavedRecordEveryElement ==
    [exists |-> TRUE,
     metadata |-> [c |-> c, t |-> t, decay |-> decay],
     data |-> [k \in DOMAIN Q |->
                 [value |-> Q[k], count |-> N[k],
                  uncertainty |-> IF N[k] = 0 THEN Zero
                                  ELSE Uncertainty(c, t, N[k])]]]

\* the JSON document written by save
SavedRecord ==
    [exists |-> TRUE,
     metadata |-> [c |-> c, t |-> t, decay |-> decay],
     data |-> [k \in {x \in DOMAIN Q : N[x] > 0} |->
                 [value |-> Q[k], count |-> N[k],
                  uncertainty |-> Uncertainty(c, t, N[k])]]]

Save ==
    /\ file' = SavedRecord
    /\ snap' = [Q |-> Q, N |-> N, t |-> t, c |-> c, decay |-> decay]
    /\ ret' = Result("save", <<"savefile">>, << >>, "none")
    /\ UNCHANGED <<Q, N, t, c, decay, state_history, reward_history,
                   last_thought, applied>>

Filenames == {"None", "savefile"}

\* the loop "for action, values in data['data'].items()" applied to a table
LoadedQ(table, data) ==
    [k \in DOMAIN table \cup DOMAIN data |->
        IF k \in DOMAIN data THEN data[k].value ELSE table[k]]

LoadedN(table, data) ==
    [k \in DOMAIN table \cup DOMAIN data |->
        IF k \in DOMAIN data THEN data[k].count ELSE table[k]]

\* variant: the filename is not tested against None
LoadsWhenExists(filename) == file.exists

\* load returns early for filename None or a file that does not exist
Loads(filename) == filename # "None" /\ file.exists

Load(filename) ==
    /\ IF Loads(filename)
       THEN /\ c' = file.metadata.c
            /\ t' = file.metadata.t
            /\ decay' = file.metadata.decay
            /\ Q' = LoadedQ(Q, file.data)
            /\ N' = LoadedN(N, file.data)
       ELSE UNCHANGED <<Q, N, t, c, decay>>
    /\ ret' = Result("load", <<filename>>, << >>, "none")
    /\ UNCHANGED <<state_history, reward_history, last_thought, file, applied, snap>>

\* ------------------------------------------------------------ construction
EmptyTable == [k \in {} |-> 0]
NoneApplied == [k \in Tokens |-> << >>]
NoSnap == [Q |-> EmptyTable, N |-> EmptyTable, t |-> 0, c |-> Zero, decay |-> Zero]

NoCycle == [cands |-> << >>, done |-> 0, phase |-> "none"]

\* variant: t starts at 0
ConstructedAtZero(c0, tmax, m) ==
    /\ Q = EmptyTable
    /\ N = EmptyTable
    /\ t = 0
    /\ c = c0
    /\ decay = RDiv(c0, tmax)
    /\ state_history = <<m>>
    /\ reward_history = <<Zero>>
    /\ last_thought = NoThought
    /\ file = NoFile
    /\ ret = Result("init", <<"None">>, << >>, "none")
    /\ applied = NoneApplied
    /\ snap = NoSnap

\* the object after UCB(brain, c=c0, tmax=tmax) with first measurement m
Constructed(c0, tmax, m) ==
    /\ Q = EmptyTable
    /\ N = EmptyTable
    /\ t = 1
    /\ c = c0
    /\ decay = RDiv(c0, tmax)
    /\ state_history = <<m>>
    /\ reward_history = <<Zero>>
    /\ last_thought = NoThought
    /\ file = NoFile
    /\ ret = Result("init", <<"None">>, << >>, "none")
    /\ applied = NoneApplied
    /\ snap = NoSnap

Init ==
    /\ \E c0 \in CInputs, tmax \in TmaxInputs, m \in SeedMeasurements :
          Constructed(c0, tmax, m)
    /\ cycle = NoCycle

\* UCB(brain, savefile=filename, c=c0, tmax=tmax) on a later start of the
\* program: the fields are set as in Init, then load(savefile) runs
Construct(c0, tmax, m, filename) ==
    /\ IF Loads(filename)
       THEN /\ c' = file.metadata.c
            /\ t' = file.metadata.t
            /\ decay' = file.metadata.decay
            /\ Q' = LoadedQ(EmptyTable, file.data)
            /\ N' = LoadedN(EmptyTable, file.data)
       ELSE /\ Q' = EmptyTable
            /\ N' = EmptyTable
            /\ t' = 1
            /\ c' = c0
            /\ decay' = RDiv(c0, tmax)
    /\ state_history' = <<m>>
    /\ reward_history' = <<Zero>>
    /\ last_thought' = NoThought
    /\ applied' = NoneApplied
    /\ ret' = Result("init", <<filename>>, << >>, "none")
    /\ UNCHANGED <<file, snap>>

\* every operation, driven with single-candidate selections
SelectSingle ==
    /\ \E input \in SingleCands : Select(input)
    /\ UNCHANGED cycle

RewardLater ==
    /\ \E brain_state \in LaterMeasurements : RewardThought(brain_state)
    /\ UNCHANGED cycle

SaveFile == Save /\ UNCHANGED cycle

LoadFile ==
    /\ \E filename \in Filenames : Load(filename)
    /\ UNCHANGED cycle

Restart ==
    /\ \E c0 \in CInputs, tmax \in TmaxInputs, m \in LaterMeasurements,
          filename \in Filenames : Construct(c0, tmax, m, filename)
    /\ UNCHANGED cycle

Next == SelectSingle \/ RewardLater \/ SaveFile \/ LoadFile \/ Restart

Spec == Init /\ [][Next]_vars

\* one instance driven through select and reward_thought only
SelectAny ==
    /\ \E input \in CandLists : Select(input)
    /\ UNCHANGED cycle

RewardAny ==
    /\ \E brain_state \in Measurements : RewardThought(brain_state)
    /\ UNCHANGED cycle

NextSelect == SelectAny \/ RewardAny

SpecSelect == Init /\ [][NextSelect]_vars

\* one instance driven through select and direct update_utility calls
UpdateDirect ==
    /\ \E action \in UpdateActions, reward \in RewardInputs :
          UpdateUtility(action, reward)
    /\ UNCHANGED cycle

NextUpdate == SelectSingle \/ UpdateDirect

SpecUpdate == Init /\ [][NextUpdate]_vars

\* one instance driven through select, reward_thought and direct
\* update_utility calls
DirectActions == {<<"b">>, <<"a", "b">>}
DirectRewards == {<<1, 2>>}

\* a call that raises KeyError leaves t, and a load takes t back: the number
\* of updates of an element is bounded as well
UpdateOnce ==
    /\ \A k \in Tokens : Len(applied[k]) < MaxDirectT
    /\ \E action \in DirectActions, reward \in DirectRewards :
          UpdateUtility(action, reward)
    /\ UNCHANGED cycle

NextCalls == SelectSingle \/ RewardLater \/ UpdateOnce

SpecCalls == Init /\ [][NextCalls]_vars

\* one instance that is also saved to and loaded from its own file
UpdateFirst ==
    /\ \A k \in Tokens : Len(applied[k]) < MaxSavedDirect
    /\ \E action \in DirectActions, reward \in DirectRewards :
          UpdateUtility(action, reward)
    /\ UNCHANGED cycle

NextPersist ==
    SelectSingle \/ RewardLater \/ UpdateFirst \/ SaveFile \/ LoadFile

SpecPersist == Init /\ [][NextPersist]_vars

\* a caller that offers the same candidates in every turn: select, then
\* reward_thought against brain states that are never 0
InitCycle ==
    /\ \E c0 \in CInputs, tmax \in TmaxInputs, m \in PositiveMeasurements :
          Constructed(c0, tmax, m)
    /\ \E cands \in CandLists \ {<< >>} :
          cycle = [cands |-> cands, done |-> 0, phase |-> "select"]

CycleSelect ==
    /\ cycle.phase = "select"
    /\ Select(cycle.cands)
    /\ cycle' = [cycle EXCEPT !.phase = "reward"]

CycleReward ==
    /\ cycle.phase = "reward"
    /\ \E brain_state \in PositiveMeasurements : RewardThought(brain_state)
    /\ cycle' = [cycle EXCEPT !.phase = "select", !.done = @ + 1]

NextCycle == CycleSelect \/ CycleReward

SpecCycle == InitCycle /\ [][NextCycle]_vars

\* a caller that selects once, from a new instance, and then lets
\* reward_thought run repeatedly against brain states that are never 0
RepeatReward ==
    /\ cycle.phase = "reward"
    /\ \E brain_state \in PositiveMeasurements : RewardThought(brain_state)
    /\ cycle' = [cycle EXCEPT !.done = @ + 1]

NextRepeat == CycleSelect \/ RepeatReward

SpecRepeat == InitCycle /\ [][NextRepeat]_vars

\* ------------------------------------------------------------- properties
Selected == ret.op = "select" /\ ret.err = "none"
Unseen(k) == k \notin DOMAIN N \/ N[k] = 0
HasUnseen(action) == \E k \in TokensOf(action) : Unseen(k)

\* C1: whenever select was offered a candidate holding an element with
\* count 0, the action it returned holds an element with count 0.
ExplorationGuarantee ==
    (Selected /\ \E i \in 1..Len(ret.arg) : HasUnseen(ret.arg[i]))
        => HasUnseen(ret.val)

\* an action with an unseen element was returned although an earlier
\* candidate had only rewarded elements
ExplorationWitness ==
    /\ Selected
    /\ Len(ret.arg) = 2
    /\ ~HasUnseen(ret.arg[1])
    /\ HasUnseen(ret.arg[2])
    /\ ret.val = ret.arg[2]

\* C7: the action select returned has the maximum aggregate score of the
\* candidates and no candidate before it in the list has an equal score.
FirstIndexOf(actions, a) ==
    CHOOSE i \in 1..Len(actions) :
        actions[i] = a /\ \A j \in 1..(i - 1) : actions[j] # a

TieBreakDeterminism ==
    Selected =>
        /\ \E i \in 1..Len(ret.arg) : ret.arg[i] = ret.val
        /\ \A i \in 1..Len(ret.arg) :
              ~ScoreGreater(ActionScore(ret.arg[i]), ActionScore(ret.val))
        /\ \A i \in 1..(FirstIndexOf(ret.arg, ret.val) - 1) :
              ScoreGreater(ActionScore(ret.val), ActionScore(ret.arg[i]))

\* two different candidates tied on a finite maximum score and the first
\* was returned
TieBreakWitness ==
    /\ Selected
    /\ Len(ret.arg) = 2
    /\ ret.arg[1] # ret.arg[2]
    /\ ~ActionScore(ret.arg[1]).inf
    /\ ActionScore(ret.arg[1]) = ActionScore(ret.arg[2])
    /\ TokensOf(ret.arg[1]) # TokensOf(ret.arg[2])
    /\ ret.val = ret.arg[1]

\* C2: a caller that offers the same candidates in every select ->
\* reward_thought turn has, after as many turns as the candidates hold
\* distinct elements, rewarded every one of these elements at least once.
EveryTokenExplored ==
    (cycle.phase # "none" /\ cycle.done >= Cardinality(CandTokens(cycle.cands)))
        => \A k \in CandTokens(cycle.cands) : k \in DOMAIN N /\ N[k] > 0

\* two elements, two turns, and the second turn rewarded the element the
\* first one had left out
EveryTokenExploredWitness ==
    /\ cycle.done = 2
    /\ Cardinality(CandTokens(cycle.cands)) = 2
    /\ \E k \in CandTokens(cycle.cands) : N[k] = 1 /\ last_thought = <<k>>
    /\ \A k \in CandTokens(cycle.cands) : N[k] > 0

\* C3: the count of an element is the number of rewards it was updated
\* with and its value is their arithmetic mean (0 before the first one).
IncrementalMeanCorrect ==
    \A k \in DOMAIN N :
        /\ N[k] = Len(applied[k])
        /\ Q[k] = IF N[k] = 0 THEN Zero ELSE RMean(applied[k])

\* three direct updates of one element with three different rewards
IncrementalMeanWitness ==
    /\ ret.op = "update_utility"
    /\ "a" \in DOMAIN N
    /\ N["a"] = 3
    /\ Cardinality({applied["a"][i] : i \in 1..3}) = 3
    /\ Q["a"] = RMean(applied["a"])

RewardStep == ret'.op = "reward_thought"
Last(s) == s[Len(s)]

RewardAttribution ==
    [][/\ (ret'.op = "select" /\ ret'.err = "none") => last_thought' = ret'.val
       /\ RewardStep =>
            /\ last_thought' = last_thought
            /\ DOMAIN N' = DOMAIN N
            /\ \A k \in DOMAIN N \ TokensOf(last_thought) :
                  N'[k] = N[k] /\ Q'[k] = Q[k]
            /\ (last_thought # NoThought /\ ret'.err = "none") =>
                  \A k \in TokensOf(last_thought) :
                      N'[k] = N[k] + Occurrences(last_thought, k)]_vars

\* "b" was selected last and rewarded; "a", offered before, is untouched
RewardAttributionWitness ==
    /\ ret.op = "reward_thought"
    /\ ret.err = "none"
    /\ last_thought = <<"b">>
    /\ DOMAIN N = {"a", "b"}
    /\ N["a"] = 0 /\ Q["a"] = Zero
    /\ N["b"] = 1

\* C6: while no selection has been recorded, reward_thought raises nothing,
\* appends one brain state and leaves the table, t, c and the reward history.
NoOpReward ==
    [][(RewardStep /\ last_thought = NoThought) =>
        /\ ret'.err = "none"
        /\ Len(state_history') = Len(state_history) + 1
        /\ UNCHANGED <<Q, N, t, c, decay, reward_history>>]_vars

\* two such calls on a new instance whose first brain state was 0
NoOpRewardWitness ==
    /\ ret.op = "reward_thought"
    /\ ret.err = "none"
    /\ last_thought = NoThought
    /\ Len(state_history) = 3
    /\ state_history[1] = 0
    /\ reward_history = <<Zero>>
    /\ Q = EmptyTable
    /\ t = 1

LoadedAtConstruction == ret.op = "init" /\ ret.arg = <<"savefile">> /\ file.exists
LoadedByLoad == ret.op = "load" /\ ret.arg = <<"savefile">> /\ file.exists

\* C8: an instance constructed from the save file has the c, t and decay
\* of the instance that saved it and, with the same value and count,
\* exactly the elements that had a count above 0 at the save.
PersistenceRoundTrip ==
    LoadedAtConstruction =>
        /\ c = snap.c /\ t = snap.t /\ decay = snap.decay
        /\ DOMAIN Q = {k \in DOMAIN snap.N : snap.N[k] > 0}
        /\ DOMAIN N = DOMAIN Q
        /\ \A k \in DOMAIN Q : Q[k] = snap.Q[k] /\ N[k] = snap.N[k]

\* a rewarded element came back and an unrewarded one was left out, into an
\* instance constructed with another exploration constant
PersistenceRoundTripWitness ==
    /\ LoadedAtConstruction
    /\ \E k \in DOMAIN N : N[k] > 0 /\ Q[k] # Zero
    /\ \E k \in DOMAIN snap.N : snap.N[k] = 0 /\ k \notin DOMAIN N
    /\ c # Zero

\* C9: after load has read the file, c, t and decay are the record's and
\* every element of the table carries the record's value and count; an
\* element the record does not hold carries no statistics (value 0, count 0).
LoadOverwrites ==
    LoadedByLoad =>
        /\ c = file.metadata.c /\ t = file.metadata.t
        /\ decay = file.metadata.decay
        /\ \A k \in DOMAIN N :
              IF k \in DOMAIN file.data
              THEN Q[k] = file.data[k].value /\ N[k] = file.data[k].count
              ELSE Q[k] = Zero /\ N[k] = 0

\* C10: c is never below 0 and no update_utility call, direct or through
\* reward_thought, raises it.
UpdateStep == ret'.op \in {"reward_thought", "update_utility"}

MonotonicDecay ==
    /\ RLeq(Zero, c)
    /\ [][(UpdateStep => RLeq(c', c)) /\ RLeq(Zero, c')]_vars

\* an update that stopped at 0 where c - decay is negative
MonotonicDecayWitness ==
    /\ ret.op = "reward_thought"
    /\ ret.err = "none"
    /\ c = Zero
    /\ RLess(Zero, decay)
    /\ t = 3
    /\ Len(reward_history) = 3

\* C11: every update_utility call that returns, direct or made by
\* reward_thought, raises t by exactly 1 whatever the number of elements of
\* the action; select and a reward_thought call that makes no update leave t;
\* and t is never below 1.
Updated ==
    \/ ret'.op = "update_utility" /\ ret'.err = "none"
    \/ /\ ret'.op = "reward_thought" /\ ret'.err = "none"
       /\ last_thought # NoThought

TimestepMonotonicity ==
    /\ t >= 1
    /\ [][/\ Updated => t' = t + 1
          /\ ~Updated => t' = t
          /\ t' >= 1]_vars

\* t went from 1 to 3 in two direct updates, of an action of two elements
\* and of an action of one
TimestepMonotonicityWitness ==
    /\ ret.op = "update_utility"
    /\ ret.err = "none"
    /\ t = 3
    /\ DOMAIN N = {"a", "b"}
    /\ N["a"] = 1 /\ N["b"] = 2
    /\ reward_history = <<Zero>>

\* C12: both histories start with one entry and only grow at the end;
\* every reward_thought call appends one brain state, and it appends one
\* reward exactly when it makes an update (a last thought is set and the
\* previous brain state is not 0), so the reward history is never longer
\* than the state history.
IsAppend(old, new) == \E x \in {Last(new)} : new = Append(old, x)

HistoryAlignment ==
    /\ Len(state_history) = 1 /\ Len(reward_history) = 1
    /\ [][/\ RewardStep => IsAppend(state_history, state_history')
          /\ ~RewardStep => state_history' = state_history
          /\ (RewardStep /\ last_thought # NoThought /\ Last(state_history) # 0)
                => IsAppend(reward_history, reward_history')
          /\ ~(RewardStep /\ last_thought # NoThought /\ Last(state_history) # 0)
                => reward_history' = reward_history
          /\ Len(reward_history') <= Len(state_history')]_vars

\* C12 as stated: the two histories have the same length in every state.
HistoryAlignmentEqual == Len(reward_history) = Len(state_history)

\* a call without a last thought and a call with one: two brain states were
\* appended and one reward
HistoryAlignmentWitness ==
    /\ ret.op = "reward_thought"
    /\ ret.err = "none"
    /\ Len(state_history) = 3
    /\ Len(reward_history) = 2
    /\ last_thought # NoThought

\* C13: a reward_thought call with a last thought and a previous brain state
\* of 0 raises ZeroDivisionError: the new brain state has been appended, and
\* the table, t, c, decay, the last thought and the reward history are as
\* before the call.
DivisionByZero ==
    [][(RewardStep /\ last_thought # NoThought /\ Last(state_history) = 0) =>
        /\ ret'.err = "ZeroDivisionError"
        /\ IsAppend(state_history, state_history')
        /\ UNCHANGED <<Q, N, t, c, decay, last_thought, reward_history>>]_vars

\* the call failed on an instance that had been rewarded once before: the
\* brain states 100, 0, 120 with a last thought
DivisionByZeroWitness ==
    /\ ret.op = "reward_thought"
    /\ ret.err = "ZeroDivisionError"
    /\ state_history = <<100, 0, 120>>
    /\ reward_history = <<Zero, Zero>>
    /\ t = 2
    /\ \E k \in DOMAIN N : N[k] = 1

\* C14: select called with an empty list raises ValueError and returns no
\* action; the table, t, c, decay, the last thought and both histories are
\* as before the call.
EmptyCandidateList ==
    [][(ret'.op = "select" /\ ret'.arg = << >>) =>
        /\ ret'.err = "ValueError"
        /\ ret'.val = << >>
        /\ UNCHANGED <<Q, N, t, c, decay, last_thought,
                       state_history, reward_history>>]_vars

\* the call failed on an instance that holds a rewarded element and a last
\* thought
EmptyCandidateListWitness ==
    /\ ret.op = "select"
    /\ ret.arg = << >>
    /\ ret.err = "ValueError"
    /\ last_thought # NoThought
    /\ \E k \in DOMAIN N : N[k] > 0
    /\ t > 1

\* C15: load called with None, or while the save file does not exist,
\* raises nothing and leaves c, t, decay and the table as they were.
MissingSource ==
    [][(ret'.op = "load" /\ (ret'.arg = <<"None">> \/ ~file.exists)) =>
        /\ ret'.err = "none"
        /\ UNCHANGED <<Q, N, t, c, decay>>]_vars

\* load(None) on a rewarded instance while a file saved earlier, with
\* another t, exists
MissingSourceWitness ==
    /\ ret.op = "load"
    /\ ret.arg = <<"None">>
    /\ file.exists
    /\ file.metadata.t # t
    /\ \E k \in DOMAIN N : N[k] > 0 /\ k \notin DOMAIN file.data

\* load of the save file on a rewarded instance before any save
MissingFileWitness ==
    /\ ret.op = "load"
    /\ ret.arg = <<"savefile">>
    /\ ~file.exists
    /\ t > 1

\* C16: in an instance driven through select, update_utility and
\* reward_thought, decay stays the c0 / tmax of the construction and
\* c = max(c0 - decay * (t - 1), 0) in every state.
ClosedForm(c0, tmax) ==
    /\ decay = RDiv(c0, tmax)
    /\ c = RMax(RSub(c0, RMul(decay, <<t - 1, 1>>)), Zero)

ClosedFormDecay ==
    /\ \E c0 \in CInputs, tmax \in TmaxInputs : ClosedForm(c0, tmax)
    /\ [][/\ decay' = decay
          /\ \E c0 \in CInputs, tmax \in TmaxInputs :
                 /\ decay = RDiv(c0, tmax)
                 /\ c' = RMax(RSub(c0, RMul(decay, <<t' - 1, 1>>)), Zero)]_vars

\* c0 = 2 and tmax = 3/2: c was 2/3 at t = 2 and is 0 at t = 3, where
\* c0 - decay * (t - 1) is negative
ClosedFormDecayWitness ==
    /\ t = 3
    /\ decay = <<4, 3>>
    /\ c = Zero
    /\ RLess(RSub(<<2, 1>>, RMul(decay, <<t - 1, 1>>)), Zero)
    /\ ret.op = "update_utility"

\* C17: in an instance driven through select, update_utility, reward_thought,
\* save and load of its own file, every count is at least 0, a count is 0
\* exactly when the element was never updated with a reward, and the value
\* of such an element is 0.
Rewarded(k) == applied[k] # << >>

ValueEntryInvariant ==
    /\ \A k \in DOMAIN N :
          /\ N[k] >= 0
          /\ N[k] = 0 <=> ~Rewarded(k)
          /\ N[k] = 0 => Q[k] = Zero
    /\ \A k \in Tokens \ DOMAIN N : ~Rewarded(k)
    /\ DOMAIN Q = DOMAIN N

\* a load brought back the record of an earlier save: "a", rewarded before
\* and after the save, has the saved count, and "b", rewarded after the
\* save only, keeps its count; a third element would still be at 0
ValueEntryInvariantWitness ==
    /\ LoadedByLoad
    /\ DOMAIN N = {"a", "b"}
    /\ DOMAIN file.data = {"a"}
    /\ N["a"] < Len(applied["a"])
    /\ N["b"] > 0

\* C18: a select call that returns adds every element of every candidate
\* that the table did not hold, with value 0 and count 0, and records the
\* returned action as the last thought; the value and count of every element
\* the table held, t, c, decay and both histories are as before, and no
\* element leaves the table.
SelectFrame ==
    [][(ret'.op = "select" /\ ret'.err = "none") =>
        /\ DOMAIN N' = DOMAIN N \cup CandTokens(ret'.arg)
        /\ DOMAIN Q' = DOMAIN N'
        /\ \A k \in DOMAIN N : N'[k] = N[k] /\ Q'[k] = Q[k]
        /\ \A k \in DOMAIN N' \ DOMAIN N : N'[k] = 0 /\ Q'[k] = Zero
        /\ last_thought' = ret'.val
        /\ UNCHANGED <<t, c, decay, state_history, reward_history>>]_vars

\* the element of the candidate that was not selected is in the table with
\* value 0 and count 0
SelectFrameWitness ==
    /\ Selected
    /\ Len(ret.arg) = 2
    /\ \E k \in CandTokens(ret.arg) \ TokensOf(ret.val) :
          k \in DOMAIN N /\ N[k] = 0 /\ Q[k] = Zero
    /\ last_thought = ret.val

\* a rewarded element kept its value and count through a later select that
\* added the other element
SelectFrameKeptWitness ==
    /\ Selected
    /\ \E k \in DOMAIN N : N[k] > 0 /\ Q[k] # Zero /\ k \notin TokensOf(ret.val)
    /\ \E k \in TokensOf(ret.val) : N[k] = 0

\* C19: after one select on a new instance, k reward_thought calls in a row
\* (none of them dividing by 0) leave the last thought in place, each element
\* of it with k times its number of occurrences as count, t at 1 + k and k
\* rewards appended.
RepeatedReward ==
    cycle.phase = "reward" =>
        /\ last_thought = ret.val \/ ret.op = "reward_thought"
        /\ last_thought # NoThought
        /\ \A k \in TokensOf(last_thought) :
              N[k] = cycle.done * Occurrences(last_thought, k)
        /\ \A k \in DOMAIN N \ TokensOf(last_thought) : N[k] = 0
        /\ t = 1 + cycle.done
        /\ Len(reward_history) = 1 + cycle.done

\* two calls after the selection of an action that holds "a" twice
RepeatedRewardWitness ==
    /\ cycle.phase = "reward"
    /\ cycle.done = 2
    /\ last_thought = <<"a", "a">>
    /\ N["a"] = 4
    /\ t = 3

\* C20: in an instance constructed without a save file and driven through
\* select and reward_thought only, t equals the length of the reward history
\* in every state.
UpdateHistoryCoupling == t = Len(reward_history)

\* two reward_thought calls of which one made an update: two brain states
\* were appended, t and the reward history moved once
UpdateHistoryCouplingWitness ==
    /\ t = 2
    /\ Len(reward_history) = 2
    /\ Len(state_history) = 3
    /\ \E k \in DOMAIN N : N[k] > 0
====
